---------------------------- MODULE Spec2Model ----------------------------
(***************************************************************************)
(* Model of the ST7920 character display driver, main/driver_st7920.cpp.   *)
(*                                                                         *)
(* The driver is single threaded and synchronous: every function runs to   *)
(* completion, so each function of the source is one action.  The action   *)
(* records what the function passed to sendInstruction_ST7920 (sent) and   *)
(* what reached the transport, SPI.transfer and the delay primitives       *)
(* (bus).  The caller takes the call's observations before the next call   *)
(* (Return), keeping a short summary of it (prev).                         *)
(*                                                                         *)
(* Integers are 16-bit patterns 0..65535 (short, and int after the         *)
(* conversion to the short parameter of sendInstruction_ST7920).           *)
(***************************************************************************)
EXTENDS Integers, Sequences, FiniteSets

VARIABLES
    instructionSet_ST7920,          \* "B" or "E"                  (line 6)
    displayStatus_ST7920,           \* BOOLEAN                     (line 7)
    underlineCursorStatus_ST7920,   \* BOOLEAN                     (line 8)
    blinkCursorStatus_ST7920,       \* BOOLEAN                     (line 9)
    charSigned,                     \* the build: is plain char signed?
    call,                           \* the call in progress, op "idle" if none
    pre,                            \* the four statics when the call began
    sent,                           \* arguments of sendInstruction_ST7920, in order
    bus,                            \* transport events of the call, in order
    prev,                           \* the call before this one: its function, its
                                    \* selector, the instruction set it began in,
                                    \* the number of switch instructions it sent
    displayOptionCalled             \* setDisplayStatus_ST7920 was called before

vars == <<instructionSet_ST7920, displayStatus_ST7920, underlineCursorStatus_ST7920,
          blinkCursorStatus_ST7920, charSigned, call, pre, sent, bus, prev,
          displayOptionCalled>>

-----------------------------------------------------------------------------
(* Bounds of the model. *)

\* setCursor_ST7920 is called directly with the positions 0..MaxPosition.
MaxPosition == 34

\* In Spec the two print functions are called with at most MaxText characters;
\* SpecPrint calls them with every length the display holds.
MaxText == 1

-----------------------------------------------------------------------------
(* 16-bit integer arithmetic on bit patterns. *)

Word == 65536

\* & and | on 4-bit digits (bit by bit), then on whole patterns digit by digit.
AndNibble ==
    [a \in 0..15 |-> [b \in 0..15 |->
        (a % 2) * (b % 2) + 2 * (((a \div 2) % 2) * ((b \div 2) % 2))
        + 4 * (((a \div 4) % 2) * ((b \div 4) % 2)) + 8 * ((a \div 8) * (b \div 8))]]

OrNibble == [a \in 0..15 |-> [b \in 0..15 |-> a + b - AndNibble[a][b]]]

RECURSIVE BitAnd(_, _)
BitAnd(a, b) ==
    IF a = 0 \/ b = 0 THEN 0
    ELSE AndNibble[a % 16][b % 16] + 16 * BitAnd(a \div 16, b \div 16)

RECURSIVE BitOr(_, _)
BitOr(a, b) ==
    IF a = 0 THEN b
    ELSE IF b = 0 THEN a
    ELSE OrNibble[a % 16][b % 16] + 16 * BitOr(a \div 16, b \div 16)

\* x >> k on a signed 16-bit value (arithmetic, as gcc does it).
Shr(x, k) ==
    IF x >= Word \div 2
    THEN (x \div (2 ^ k)) + (Word - 2 ^ (16 - k))
    ELSE x \div (2 ^ k)

\* x << k, kept to 16 bits.
Shl(x, k) == (x * (2 ^ k)) % Word

\* The conversion of the int argument to the uint8_t parameter of SPI.transfer.
ToByte(x) == x % 256

\* The promotion of chars[i] (char) to int: sign extension where char is signed.
CharToInt(c, signed) == IF signed /\ c >= 128 THEN c + (Word - 256) ELSE c

-----------------------------------------------------------------------------
(* Transport events. *)

Xfer(b) == <<"transfer", b>>
DelayUs(n) == <<"delayMicroseconds", n>>
DelayMs(n) == <<"delay", n>>
SpiBegin == <<"begin", 0>>
SpiBeginTransaction == <<"beginTransaction", 600000>>

-----------------------------------------------------------------------------
(* The driver's functions.  s is the driver state threaded through a call:  *)
(* [set, disp, ul, bl] are the four statics, [sent, bus] the observations.  *)

\* (byte 1) 1 1 1 1 1 RW RS 0
Byte1_swapped(instruction) ==
    ToByte(BitOr(BitOr(BitAnd(Shr(instruction, 7), \b0000000100),
                       BitAnd(Shr(instruction, 7), \b0000000010)), \b11111000))

Byte1(instruction) ==
    ToByte(BitOr(BitOr(BitAnd(Shr(instruction, 8), \b0000000010),
                       BitAnd(Shr(instruction, 6), \b0000000100)), \b11111000))

\* (byte 2) DB7 DB6 DB5 DB4 0 0 0 0
Byte2_shifted(instruction) ==
    ToByte(BitAnd(Shr(instruction, 4), \b0011110000))

Byte2(instruction) ==
    ToByte(BitAnd(instruction, \b0011110000))

\* (byte 3) DB3 DB2 DB1 DB0 0 0 0 0
Byte3_noshift(instruction) ==
    ToByte(BitAnd(instruction, \b0000001111))

Byte3(instruction) ==
    ToByte(BitAnd(Shl(instruction, 4), \b0011110000))

\* The three transfers and the settle delay of one instruction.
Transaction(instruction) ==
    <<Xfer(Byte1(instruction)), Xfer(Byte2(instruction)), Xfer(Byte3(instruction)),
      DelayUs(80)>>

\* Transaction, tabulated for the 10-bit instructions.
TransactionTable == [instruction \in 0..1023 |-> Transaction(instruction)]

sendInstruction_ST7920(s, instruction) ==
    [s EXCEPT !.sent = Append(@, instruction),
              !.bus = @ \o (IF instruction < 1024
                            THEN TransactionTable[instruction]
                            ELSE Transaction(instruction))]

\* Avoid choosing same instruction set repeatedly to save time.
chooseInstructionSet_unguarded(s, choice) ==
    IF choice = "E"
    THEN sendInstruction_ST7920([s EXCEPT !.set = "E"], \b0000110100)
    ELSE IF choice = "B"
    THEN sendInstruction_ST7920([s EXCEPT !.set = "B"], \b0000110000)
    ELSE s

chooseInstructionSet_ST7920(s, choice) ==
    IF choice = "E" /\ s.set = "B"
    THEN sendInstruction_ST7920([s EXCEPT !.set = "E"], \b0000110100)
    ELSE IF choice = "B" /\ s.set = "E"
    THEN sendInstruction_ST7920([s EXCEPT !.set = "B"], \b0000110000)
    ELSE s

setEntryMode_ST7920(s, mode, direction) ==
    LET s1 == chooseInstructionSet_ST7920(s, "B")
    IN  IF mode = "C" /\ direction = "R" THEN sendInstruction_ST7920(s1, \b0000000110)
        ELSE IF mode = "C" /\ direction = "L" THEN sendInstruction_ST7920(s1, \b0000000100)
        ELSE IF mode = "D" /\ direction = "R" THEN sendInstruction_ST7920(s1, \b0000000101)
        ELSE IF mode = "D" /\ direction = "L" THEN sendInstruction_ST7920(s1, \b0000000111)
        ELSE s1

moveCursor_ST7920(s, direction) ==
    LET s1 == chooseInstructionSet_ST7920(s, "B")
    IN  IF direction = "R" THEN sendInstruction_ST7920(s1, \b0000010100)
        ELSE IF direction = "L" THEN sendInstruction_ST7920(s1, \b0000010000)
        ELSE s1

shiftDisplay_ST7920(s, direction) ==
    LET s1 == chooseInstructionSet_ST7920(s, "B")
    IN  IF direction = "R" THEN sendInstruction_ST7920(s1, \b0000011100)
        ELSE IF direction = "L" THEN sendInstruction_ST7920(s1, \b0000011000)
        ELSE s1

homeCursor_ST7920(s) ==
    sendInstruction_ST7920(chooseInstructionSet_ST7920(s, "B"), \b0000000010)

\* position is a byte; the int results are converted to short.
setCursor_sameOffset(s, position) ==
    IF (position >= 0 /\ position <= 7) \/ (position >= 24 /\ position <= 31)
    THEN sendInstruction_ST7920(s, BitOr(\b0010000000, position))
    ELSE IF position >= 8 /\ position <= 15
    THEN sendInstruction_ST7920(s, BitOr(\b0010000000, position + 8))
    ELSE IF position >= 16 /\ position <= 23
    THEN sendInstruction_ST7920(s, BitOr(\b0010000000, position + 8))
    ELSE s

setCursor_ST7920(s, position) ==
    IF (position >= 0 /\ position <= 7) \/ (position >= 24 /\ position <= 31)
    THEN sendInstruction_ST7920(s, BitOr(\b0010000000, position))
    ELSE IF position >= 8 /\ position <= 15
    THEN sendInstruction_ST7920(s, BitOr(\b0010000000, position + 8))
    ELSE IF position >= 16 /\ position <= 23
    THEN sendInstruction_ST7920(s, BitOr(\b0010000000, position - 8))
    ELSE s

\* short displayControl = 0b0000001000, then one bit per static that is true.
displayControl(s) ==
    BitOr(BitOr(BitOr(\b0000001000, IF s.disp THEN \b0000000100 ELSE 0),
                IF s.ul THEN \b0000000010 ELSE 0),
          IF s.bl THEN \b0000000001 ELSE 0)

Delay(s, event) == [s EXCEPT !.bus = Append(@, event)]

\* TRUE, once the state s has been computed: the loops below ask it of the
\* state each iteration starts from, so that they are evaluated iteration by
\* iteration.
Evaluated(s) == Len(s.sent) >= 0

initialize_keepsSet(s) ==
    LET s0 == Delay(Delay(s, SpiBegin), SpiBeginTransaction)
        s1 == Delay(sendInstruction_ST7920(s0, \b0000110000), DelayUs(20))
        s2 == Delay(sendInstruction_ST7920(s1, displayControl(s1)), DelayUs(20))
        s3 == Delay(sendInstruction_ST7920(s2, \b0000000001), DelayMs(10))
    IN  sendInstruction_ST7920(s3, \b0000000110)

initialize_ST7920(s) ==
    LET s0 == Delay(Delay(s, SpiBegin), SpiBeginTransaction)
        s1 == Delay(sendInstruction_ST7920([s0 EXCEPT !.set = "B"], \b0000110000),
                    DelayUs(20))
        s2 == Delay(sendInstruction_ST7920(s1, displayControl(s1)), DelayUs(20))
        s3 == Delay(sendInstruction_ST7920(s2, \b0000000001), DelayMs(10))
    IN  sendInstruction_ST7920(s3, \b0000000110)

clearCharacterDisplay_ST7920(s) ==
    Delay(sendInstruction_ST7920(chooseInstructionSet_ST7920(s, "B"), \b0000000001),
          DelayMs(2))

\* case 'C' without its break: falls through into case 'B'.
setDisplayStatus_fallthrough(s, option, status) ==
    LET s1 == IF option = "D" THEN [s EXCEPT !.disp = status]
              ELSE IF option = "C" THEN [s EXCEPT !.ul = status, !.bl = status]
              ELSE IF option = "B" THEN [s EXCEPT !.bl = status]
              ELSE s
        instruction == displayControl(s1)
    IN  sendInstruction_ST7920(chooseInstructionSet_ST7920(s1, "B"), instruction)

setDisplayStatus_ST7920(s, option, status) ==
    LET s1 == IF option = "D" THEN [s EXCEPT !.disp = status]
              ELSE IF option = "C" THEN [s EXCEPT !.ul = status]
              ELSE IF option = "B" THEN [s EXCEPT !.bl = status]
              ELSE s
        instruction == displayControl(s1)
    IN  sendInstruction_ST7920(chooseInstructionSet_ST7920(s1, "B"), instruction)

\* The loop of printHalfCharacters_ST7920; i and position are bytes.  The int
\* 0b1000000000 | chars[i] is converted to the short parameter.
RECURSIVE halfLoop_no48(_, _, _, _, _, _)
halfLoop_no48(s, chars, length, i, position, signed) ==
    IF i < length /\ Evaluated(s)
    THEN LET s1 == IF position = 16 \/ position = 32
                   THEN setCursor_ST7920(s, position \div 2)
                   ELSE s
             s2 == sendInstruction_ST7920(s1,
                       BitOr(\b1000000000, CharToInt(chars[i + 1], signed)) % Word)
         IN  halfLoop_no48(s2, chars, length, ToByte(i + 1), ToByte(position + 1), signed)
    ELSE [s |-> s, position |-> position]

RECURSIVE halfLoop(_, _, _, _, _, _)
halfLoop(s, chars, length, i, position, signed) ==
    IF i < length /\ Evaluated(s)
    THEN LET s1 == IF position = 16 \/ position = 32 \/ position = 48
                   THEN setCursor_ST7920(s, position \div 2)
                   ELSE s
             s2 == sendInstruction_ST7920(s1,
                       BitOr(\b1000000000, CharToInt(chars[i + 1], signed)) % Word)
         IN  halfLoop(s2, chars, length, ToByte(i + 1), ToByte(position + 1), signed)
    ELSE [s |-> s, position |-> position]

printHalfCharacters_ST7920(s, chars, length, row, column, signed) ==
    LET position == ToByte(row * 16 + column)
        s1 == setCursor_ST7920(s, position \div 2)
        s2 == IF position % 2 = 1 THEN sendInstruction_ST7920(s1, \b1000100000) ELSE s1
        r  == halfLoop(s2, chars, length, 0, position, signed)
    IN  IF r.position % 2 = 1 THEN sendInstruction_ST7920(r.s, \b1000100000) ELSE r.s

\* The loop of printFullCharacters_ST7920.  | binds weaker than &, & weaker
\* than >>: 0b1000000000 | ((chars[i] >> 8) & 0xFF), 0b1000000000 | (chars[i] & 0xFF).
RECURSIVE fullLoop_lowFirst(_, _, _, _, _)
fullLoop_lowFirst(s, chars, length, i, position) ==
    IF i < length /\ Evaluated(s)
    THEN LET s1 == IF position = 8 \/ position = 16 \/ position = 24
                   THEN setCursor_ST7920(s, position)
                   ELSE s
             s2 == sendInstruction_ST7920(s1,
                       BitOr(\b1000000000, BitAnd(chars[i + 1], \b0000000011111111)))
             s3 == sendInstruction_ST7920(s2,
                       BitOr(\b1000000000,
                             BitAnd(Shr(chars[i + 1], 8), \b0000000011111111)))
         IN  fullLoop_lowFirst(s3, chars, length, ToByte(i + 1), ToByte(position + 1))
    ELSE s

RECURSIVE fullLoop(_, _, _, _, _)
fullLoop(s, chars, length, i, position) ==
    IF i < length /\ Evaluated(s)
    THEN LET s1 == IF position = 8 \/ position = 16 \/ position = 24
                   THEN setCursor_ST7920(s, position)
                   ELSE s
             s2 == sendInstruction_ST7920(s1,
                       BitOr(\b1000000000,
                             BitAnd(Shr(chars[i + 1], 8), \b0000000011111111)))
             s3 == sendInstruction_ST7920(s2,
                       BitOr(\b1000000000, BitAnd(chars[i + 1], \b0000000011111111)))
         IN  fullLoop(s3, chars, length, ToByte(i + 1), ToByte(position + 1))
    ELSE s

printFullCharacters_ST7920(s, chars, length, row, column) ==
    LET position == ToByte(row * 8 + column)
    IN  fullLoop(setCursor_ST7920(s, position), chars, length, 0, position)

chineseChars ==
    << \hCEAA, \hC1CB, \hB6A9, \hB5A5, \hBCB8, \hBAF5, \hC5E3, \hCBAF,
       \hB5E3, \hCDB7, \hB9FE, \hD1FC, \hBECD, \hB2EE, \hCFC2, \hB9F2,
       \hC6A8, \hB4F3, \hB5E3, \hCAC2, \hB2BB, \hB8D2, \hB5C3, \hD7EF,
       \hD2BB, \hC4EA, \hB5BD, \hCDB7, \hB2BB, \hC0EB, \hB8DA, \hCEBB >>

test(s) ==
    printFullCharacters_ST7920(Delay(initialize_ST7920(s), DelayMs(500)),
                               chineseChars, 32, 0, 0)

-----------------------------------------------------------------------------
(* Calls and their inputs. *)

\* The display holds 64 half-width and 32 full-width characters.
HalfCells == 64
FullCells == 32

Call(op, arg, num, status, chars, length, row, column) ==
    [op |-> op, arg |-> arg, num |-> num, status |-> status,
     chars |-> chars, length |-> length, row |-> row, column |-> column]

Idle == Call("idle", "", 0, FALSE, <<>>, 0, 0, 0)

Statics ==
    [set |-> instructionSet_ST7920, disp |-> displayStatus_ST7920,
     ul |-> underlineCursorStatus_ST7920, bl |-> blinkCursorStatus_ST7920]

Drv ==
    [set |-> instructionSet_ST7920, disp |-> displayStatus_ST7920,
     ul |-> underlineCursorStatus_ST7920, bl |-> blinkCursorStatus_ST7920,
     sent |-> <<>>, bus |-> <<>>]

\* The two instruction-set switch instructions of chooseInstructionSet_ST7920.
IsSwitch(instruction) == instruction \in {\b0000110100, \b0000110000}

SwitchCount(instructions) ==
    Cardinality({k \in 1..Len(instructions) : IsSwitch(instructions[k])})

\* Character codes of the texts printed: chars[i] = seed + i, as 8-bit codes.
HalfSeeds == {32, 160}

HalfText(seed, length) == [k \in 1..length |-> (seed + k - 1) % 256]

\* 16-bit codes printed: the text of test(), and codes counting up from a seed
\* in both bytes.
FullSeeds == {\h7FFE}

FullTexts(length) ==
    {SubSeq(chineseChars, 1, length)}
        \cup {[k \in 1..length |-> (seed + 257 * (k - 1)) % Word] : seed \in FullSeeds}

Min(a, b) == IF a <= b THEN a ELSE b

\* The caller is between two calls.
AtIdle == call.op = "idle"

\* A function was called and ran to completion, leaving the driver in state s.
Commit(s, c) ==
    /\ call' = c
    /\ pre' = Statics
    /\ instructionSet_ST7920' = s.set
    /\ displayStatus_ST7920' = s.disp
    /\ underlineCursorStatus_ST7920' = s.ul
    /\ blinkCursorStatus_ST7920' = s.bl
    /\ sent' = s.sent
    /\ bus' = s.bus
    /\ displayOptionCalled' = (displayOptionCalled \/ c.op = "setDisplayStatus")
    /\ UNCHANGED <<charSigned, prev>>

\* The caller goes on to its next call.
Return ==
    /\ call.op # "idle"
    /\ prev' = [op |-> call.op, arg |-> call.arg, set |-> pre.set,
                 switches |-> SwitchCount(sent)]
    /\ call' = Idle
    /\ pre' = Statics
    /\ sent' = <<>>
    /\ bus' = <<>>
    /\ UNCHANGED <<instructionSet_ST7920, displayStatus_ST7920,
                   underlineCursorStatus_ST7920, blinkCursorStatus_ST7920,
                   charSigned, displayOptionCalled>>

-----------------------------------------------------------------------------
(* Actions: one per function of the driver. *)

SendInstruction ==
    /\ AtIdle
    /\ \E instruction \in 0..1023 :
           Commit(sendInstruction_ST7920(Drv, instruction),
                  Call("sendInstruction", "", instruction, FALSE, <<>>, 0, 0, 0))

ChooseInstructionSet ==
    /\ AtIdle
    /\ \E choice \in {"B", "E"} :
           Commit(chooseInstructionSet_ST7920(Drv, choice),
                  Call("chooseInstructionSet", choice, 0, FALSE, <<>>, 0, 0, 0))

SetEntryMode ==
    /\ AtIdle
    /\ \E mode \in {"C", "D"}, direction \in {"L", "R"} :
           Commit(setEntryMode_ST7920(Drv, mode, direction),
                  Call("setEntryMode", mode \o direction, 0, FALSE, <<>>, 0, 0, 0))

MoveCursor ==
    /\ AtIdle
    /\ \E direction \in {"L", "R"} :
           Commit(moveCursor_ST7920(Drv, direction),
                  Call("moveCursor", direction, 0, FALSE, <<>>, 0, 0, 0))

ShiftDisplay ==
    /\ AtIdle
    /\ \E direction \in {"L", "R"} :
           Commit(shiftDisplay_ST7920(Drv, direction),
                  Call("shiftDisplay", direction, 0, FALSE, <<>>, 0, 0, 0))

HomeCursor ==
    /\ AtIdle
    /\ Commit(homeCursor_ST7920(Drv), Call("homeCursor", "", 0, FALSE, <<>>, 0, 0, 0))

SetCursor ==
    /\ AtIdle
    /\ \E position \in 0..MaxPosition :
           Commit(setCursor_ST7920(Drv, position),
                  Call("setCursor", "", position, FALSE, <<>>, 0, 0, 0))

Initialize ==
    /\ AtIdle
    /\ Commit(initialize_ST7920(Drv), Call("initialize", "", 0, FALSE, <<>>, 0, 0, 0))

ClearCharacterDisplay ==
    /\ AtIdle
    /\ Commit(clearCharacterDisplay_ST7920(Drv),
              Call("clearCharacterDisplay", "", 0, FALSE, <<>>, 0, 0, 0))

SetDisplayStatus ==
    /\ AtIdle
    /\ \E option \in {"D", "C", "B"}, status \in BOOLEAN :
           Commit(setDisplayStatus_ST7920(Drv, option, status),
                  Call("setDisplayStatus", option, 0, status, <<>>, 0, 0, 0))

\* Calls within the precondition row*16 + column + length <= 64, of at most
\* maxLength characters.
PrintHalfCharacters(maxLength) ==
    /\ AtIdle
    /\ \E row \in 0..3, column \in 0..15 :
           \E length \in 0..Min(maxLength, HalfCells - (row * 16 + column)) :
               \E seed \in HalfSeeds :
                   LET chars == HalfText(seed, length)
                   IN  Commit(printHalfCharacters_ST7920(Drv, chars, length, row, column,
                                                         charSigned),
                              Call("printHalfCharacters", "", 0, FALSE, chars, length,
                                   row, column))

\* Calls within the precondition row*8 + column + length <= 32.
PrintFullCharacters(maxLength) ==
    /\ AtIdle
    /\ \E row \in 0..3, column \in 0..7 :
           \E length \in 0..Min(maxLength, FullCells - (row * 8 + column)) :
               \E chars \in FullTexts(length) :
                   Commit(printFullCharacters_ST7920(Drv, chars, length, row, column),
                          Call("printFullCharacters", "", 0, FALSE, chars, length,
                               row, column))

Test ==
    /\ AtIdle
    /\ Commit(test(Drv), Call("test", "", 0, FALSE, <<>>, 0, 0, 0))

PrintHalfShort == PrintHalfCharacters(MaxText)
PrintFullShort == PrintFullCharacters(MaxText)
PrintHalfAny == PrintHalfCharacters(HalfCells)
PrintFullAny == PrintFullCharacters(FullCells)

-----------------------------------------------------------------------------
(* Specifications. *)

Init ==
    /\ instructionSet_ST7920 = "B"
    /\ displayStatus_ST7920 = TRUE
    /\ underlineCursorStatus_ST7920 = TRUE
    /\ blinkCursorStatus_ST7920 = TRUE
    /\ charSigned \in BOOLEAN
    /\ call = Idle
    /\ pre = [set |-> "B", disp |-> TRUE, ul |-> TRUE, bl |-> TRUE]
    /\ sent = <<>>
    /\ bus = <<>>
    /\ prev = [op |-> "none", arg |-> "", set |-> "B", switches |-> 0]
    /\ displayOptionCalled = FALSE

\* Every function of the driver, the print functions on short texts.
Next ==
    \/ ChooseInstructionSet
    \/ SetEntryMode
    \/ MoveCursor
    \/ ShiftDisplay
    \/ HomeCursor
    \/ SetCursor
    \/ Initialize
    \/ ClearCharacterDisplay
    \/ SetDisplayStatus
    \/ PrintHalfShort
    \/ PrintFullShort
    \/ Test
    \/ Return

Spec == Init /\ [][Next]_vars

\* The transaction encoder on every 10-bit instruction.
NextEnc == SendInstruction \/ Return

SpecEnc == Init /\ [][NextEnc]_vars

\* The print functions on every call within their preconditions.
NextPrint == PrintHalfAny \/ PrintFullAny \/ Return

SpecPrint == Init /\ [][NextPrint]_vars

-----------------------------------------------------------------------------
(* Observations the properties are stated on. *)

\* The bytes transferred by the call, in order.
Transfers ==
    LET xs == SelectSeq(bus, LAMBDA e : e[1] = "transfer")
    IN  [k \in 1..Len(xs) |-> xs[k][2]]

BitOf(x, k) == (x \div (2 ^ k)) % 2

\* The physical DDRAM address of a logical position 0..31.
PhysicalAddress(p) ==
    IF p \in 8..15 THEN p + 8 ELSE IF p \in 16..23 THEN p - 8 ELSE p

\* A set-DDRAM-address instruction: 0b001 in bits 9..7 and nothing above.
IsSetAddress(instruction) == instruction \in 128..255

SetAddressCount ==
    Cardinality({k \in 1..Len(sent) : IsSetAddress(sent[k])})

\* The display-control instruction for three flag values.
DisplayControlOf(d, u, b) ==
    8 + (IF d THEN 4 ELSE 0) + (IF u THEN 2 ELSE 0) + (IF b THEN 1 ELSE 0)

IsDisplayControl(instruction) == instruction \in 8..15

HalfStart == call.row * 16 + call.column
FullStart == call.row * 8 + call.column

\* Where in sent the character written at half-width position p stands: after
\* the first set-address, the leading space of an odd start, the characters
\* before it and the set-addresses re-issued up to it.
HalfIndex(p) ==
    1 + (HalfStart % 2) + (p - HalfStart + 1)
      + Cardinality({b \in {16, 32, 48} : HalfStart <= b /\ b <= p})

\* Where in sent the high byte of the k-th full-width character stands.
FullIndex(k) ==
    2 * k + Cardinality({b \in {8, 16, 24} : FullStart <= b /\ b <= FullStart + k - 1})

-----------------------------------------------------------------------------
(* C1, C2, C6: the transaction encoder (SpecEnc). *)

\* C1: for every 10-bit instruction, sendInstruction makes exactly three byte
\* transfers and then exactly one 80-microsecond delay; the second byte has
\* instruction bits 7..4 in its high nibble and a zero low nibble, the third
\* byte has instruction bits 3..0 in its high nibble and a zero low nibble.
C1_ThreeTransfersThenSettle ==
    call.op = "sendInstruction" =>
        /\ Len(bus) = 4
        /\ bus[1][1] = "transfer" /\ bus[1][2] \in 0..255
        /\ bus[2] = <<"transfer", 16 * ((call.num \div 16) % 16)>>
        /\ bus[3] = <<"transfer", 16 * (call.num % 16)>>
        /\ bus[4] = <<"delayMicroseconds", 80>>
        /\ sent = <<call.num>>

C1_Witness ==
    /\ call.op = "sendInstruction"
    /\ call.num = \b1001011010
    /\ bus = << <<"transfer", \b11111010>>, <<"transfer", \b01010000>>,
                <<"transfer", \b10100000>>, <<"delayMicroseconds", 80>> >>

\* C2 as stated: the first byte is 11111 in bits 7..3, bit 2 is instruction
\* bit 9, bit 1 is instruction bit 8, bit 0 is 0; and the first byte of the
\* write-data instruction 0b1000000000 | 0x41 is that of the function-set
\* instruction 0b0000110000 with bit 1 (RS) set.
C2_FirstByte_AsStated ==
    call.op = "sendInstruction" =>
        /\ bus[1] = <<"transfer", 248 + 4 * BitOf(call.num, 9) + 2 * BitOf(call.num, 8)>>
        /\ call.num = \b0000110000 => bus[1] = <<"transfer", \b11111000>>
        /\ call.num = \b1001000001 => bus[1] = <<"transfer", \b11111010>>

\* C2, amended: the first byte is 11111 in bits 7..3, bit 2 (RW) is instruction
\* bit 8, bit 1 (RS) is instruction bit 9, bit 0 is 0; and the first byte of
\* the write-data instruction 0b1000000000 | 0x41 is that of the function-set
\* instruction 0b0000110000 with bit 1 (RS) set.
C2_FirstByte ==
    call.op = "sendInstruction" =>
        /\ bus[1] = <<"transfer", 248 + 4 * BitOf(call.num, 8) + 2 * BitOf(call.num, 9)>>
        /\ call.num = \b0000110000 => bus[1] = <<"transfer", \b11111000>>
        /\ call.num = \b1001000001 => bus[1] = <<"transfer", \b11111010>>

C2_Witness ==
    /\ call.op = "sendInstruction"
    /\ call.num = \b1001000001
    /\ bus[1] = <<"transfer", \b11111010>>

\* C6 as stated: sendInstruction(0b0000110000) transfers exactly the bytes
\* 0b11111000, 0b00000000, 0b00000000, in that order.
C6_FunctionSetBytes_AsStated ==
    (call.op = "sendInstruction" /\ call.num = \b0000110000) =>
        Transfers = <<\b11111000, \b00000000, \b00000000>>

\* C6, amended: sendInstruction(0b0000110000) transfers exactly the bytes
\* 0b11111000, 0b00110000, 0b00000000, in that order.
C6_FunctionSetBytes ==
    (call.op = "sendInstruction" /\ call.num = \b0000110000) =>
        Transfers = <<\b11111000, \b00110000, \b00000000>>

C6_Witness ==
    /\ call.op = "sendInstruction"
    /\ call.num = \b0000110000
    /\ Len(Transfers) = 3

-----------------------------------------------------------------------------
(* C3, C4, C5, C10: cursor, instruction set, display flags, start-up (Spec). *)

\* C3: for every position p in 0..31, setCursor(p) sends exactly one
\* instruction, 0b0010000000 | a(p), with a(p) = p for p in 0..7 and 24..31,
\* p + 8 for p in 8..15, p - 8 for p in 16..23.
C3_SetCursorAddress ==
    (call.op = "setCursor" /\ call.num \in 0..31) =>
        sent = <<128 + PhysicalAddress(call.num)>>

C3_Witness ==
    /\ call.op = "setCursor"
    /\ call.num = 17
    /\ sent = <<\b0010001001>>

\* C4 as stated: chooseInstructionSet(target) sends nothing and leaves the
\* tracked set alone when target is the tracked set; otherwise it sends
\* exactly one switch instruction (0b0000110100 for E, 0b0000110000 for B) and
\* sets the tracked set to target; and two calls with B in a row send exactly
\* one switch instruction in total.
C4_SwitchOnlyOnChange_AsStated ==
    call.op = "chooseInstructionSet" =>
        /\ call.arg = pre.set =>
               sent = <<>> /\ instructionSet_ST7920 = pre.set
        /\ call.arg # pre.set =>
               /\ sent = <<IF call.arg = "E" THEN \b0000110100 ELSE \b0000110000>>
               /\ instructionSet_ST7920 = call.arg
        /\ (prev.op = "chooseInstructionSet" /\ prev.arg = "B" /\ call.arg = "B") =>
               prev.switches + Len(sent) = 1

\* C4, amended: chooseInstructionSet(target) sends nothing and leaves the
\* tracked set alone when target is the tracked set; otherwise it sends
\* exactly one switch instruction (0b0000110100 for E, 0b0000110000 for B) and
\* sets the tracked set to target; and of two calls with B in a row the second
\* sends nothing, so the two send one switch instruction in total when the
\* tracked set was E before the first call and none when it was B.
C4_SwitchOnlyOnChange ==
    call.op = "chooseInstructionSet" =>
        /\ call.arg = pre.set =>
               sent = <<>> /\ instructionSet_ST7920 = pre.set
        /\ call.arg # pre.set =>
               /\ sent = <<IF call.arg = "E" THEN \b0000110100 ELSE \b0000110000>>
               /\ instructionSet_ST7920 = call.arg
        /\ (prev.op = "chooseInstructionSet" /\ prev.arg = "B" /\ call.arg = "B") =>
               /\ sent = <<>>
               /\ prev.switches + Len(sent) = (IF prev.set = "E" THEN 1 ELSE 0)

C4_Witness ==
    /\ prev.op = "chooseInstructionSet" /\ prev.arg = "B" /\ prev.set = "E"
    /\ prev.switches = 1
    /\ call.op = "chooseInstructionSet" /\ call.arg = "B"
    /\ sent = <<>>

\* C5: setDisplayStatus(option, status) with option D, C or B changes the
\* named flag only and sends exactly one display-control instruction,
\* 0b0000001000 with bit 2 = display, bit 1 = underline cursor, bit 0 = blink
\* cursor as they are after the update; so after D := false the call C := true
\* sends the instruction of (false, true, true).
C5_DisplayControlCarriesAllFlags ==
    call.op = "setDisplayStatus" =>
        /\ displayStatus_ST7920 = (IF call.arg = "D" THEN call.status ELSE pre.disp)
        /\ underlineCursorStatus_ST7920 = (IF call.arg = "C" THEN call.status ELSE pre.ul)
        /\ blinkCursorStatus_ST7920 = (IF call.arg = "B" THEN call.status ELSE pre.bl)
        /\ Cardinality({k \in 1..Len(sent) : IsDisplayControl(sent[k])}) = 1
        /\ sent[Len(sent)] = DisplayControlOf(displayStatus_ST7920,
                                              underlineCursorStatus_ST7920,
                                              blinkCursorStatus_ST7920)
        /\ (prev.op = "setDisplayStatus" /\ prev.arg = "D" /\ ~pre.disp /\ pre.ul
                /\ pre.bl /\ call.arg = "C" /\ call.status) =>
               sent[Len(sent)] = \b0000001011

C5_Witness ==
    /\ prev.op = "setDisplayStatus" /\ prev.arg = "D"
    /\ pre = [set |-> "B", disp |-> FALSE, ul |-> TRUE, bl |-> TRUE]
    /\ call.op = "setDisplayStatus" /\ call.arg = "C" /\ call.status
    /\ sent = <<\b0000001011>>

\* C10: from any state, initialize sets the tracked set to B, sends exactly
\* function-set 0b0000110000, display-control 0b0000001000 | the three flags,
\* clear 0b0000000001, entry-mode 0b0000000110, in this order, and leaves the
\* flags unchanged; clearCharacterDisplay leaves them unchanged too, and with
\* no setDisplayStatus call before, they are the defaults (true, true, true).
C10_InitializeSequence ==
    /\ call.op = "initialize" =>
           /\ instructionSet_ST7920 = "B"
           /\ sent = <<\b0000110000, DisplayControlOf(pre.disp, pre.ul, pre.bl),
                       \b0000000001, \b0000000110>>
    /\ call.op \in {"initialize", "clearCharacterDisplay"} =>
           /\ displayStatus_ST7920 = pre.disp
           /\ underlineCursorStatus_ST7920 = pre.ul
           /\ blinkCursorStatus_ST7920 = pre.bl
    /\ ~displayOptionCalled =>
           /\ displayStatus_ST7920
           /\ underlineCursorStatus_ST7920
           /\ blinkCursorStatus_ST7920

C10_Witness ==
    /\ call.op = "initialize"
    /\ pre = [set |-> "E", disp |-> FALSE, ul |-> TRUE, bl |-> TRUE]
    /\ instructionSet_ST7920 = "B"
    /\ sent = <<\b0000110000, \b0000001011, \b0000000001, \b0000000110>>

-----------------------------------------------------------------------------
(* C7, C8, C9: the print functions (SpecPrint). *)

\* C7 as stated: a printHalfCharacters call with start + length <= 64 sends
\* 1 + #{b in {16,32,48} : start < b < start + length} set-address
\* instructions, the first for start div 2, and each of the others right
\* before the character written at its boundary b.
C7_HalfRowCrossings_AsStated ==
    call.op = "printHalfCharacters" =>
        LET crossed == {b \in {16, 32, 48} :
                            HalfStart < b /\ b < HalfStart + call.length}
        IN  /\ SetAddressCount = 1 + Cardinality(crossed)
            /\ sent[1] = 128 + PhysicalAddress(HalfStart \div 2)
            /\ \A b \in crossed :
                   /\ sent[HalfIndex(b) - 1] = 128 + PhysicalAddress(b \div 2)
                   /\ sent[HalfIndex(b)] % 256 = call.chars[b - HalfStart + 1]

\* C7, amended: a printHalfCharacters call with start + length <= 64 sends
\* 1 + #{b in {16,32,48} : start <= b < start + length} set-address
\* instructions (a call that starts on a boundary sends it again before its
\* first character), the first for start div 2, and each of the others right
\* before the character written at its boundary b; row 0, column 14, length 4
\* sends one more, at 16.
C7_HalfRowCrossings ==
    call.op = "printHalfCharacters" =>
        LET crossed == {b \in {16, 32, 48} :
                            HalfStart <= b /\ b < HalfStart + call.length}
        IN  /\ SetAddressCount = 1 + Cardinality(crossed)
            /\ sent[1] = 128 + PhysicalAddress(HalfStart \div 2)
            /\ \A b \in crossed :
                   /\ sent[HalfIndex(b) - 1] = 128 + PhysicalAddress(b \div 2)
                   /\ sent[HalfIndex(b)] % 256 = call.chars[b - HalfStart + 1]
            /\ (call.row = 0 /\ call.column = 14 /\ call.length = 4) =>
                   SetAddressCount = 2 /\ sent[4] = \b0010010000

C7_Witness ==
    /\ call.op = "printHalfCharacters"
    /\ call.row = 0 /\ call.column = 14 /\ call.length = 4
    /\ Len(sent) = 6
    /\ sent[1] = \b0010000111
    /\ sent[4] = \b0010010000

\* C8: a printFullCharacters call with start + length <= 32 sends each 16-bit
\* character as two consecutive write-data instructions, 0b1000000000 | high
\* byte then 0b1000000000 | low byte, in input order; it sends a set-address
\* instruction for the running position before the first character and again
\* right before each character at position 8, 16 or 24, and nothing else.
C8_FullWidthSequence ==
    call.op = "printFullCharacters" =>
        /\ Len(sent) = FullIndex(call.length) + 1
        /\ sent[1] = 128 + PhysicalAddress(FullStart)
        /\ SetAddressCount =
               1 + Cardinality({b \in {8, 16, 24} :
                                    FullStart <= b /\ b < FullStart + call.length})
        /\ \A k \in 1..call.length :
               /\ sent[FullIndex(k)] = 512 + (call.chars[k] \div 256)
               /\ sent[FullIndex(k) + 1] = 512 + (call.chars[k] % 256)
               /\ (FullStart + k - 1) \in {8, 16, 24} =>
                      sent[FullIndex(k) - 1] = 128 + PhysicalAddress(FullStart + k - 1)

C8_Witness ==
    /\ call.op = "printFullCharacters"
    /\ call.row = 0 /\ call.column = 7 /\ call.length = 2
    /\ call.chars = <<\hCEAA, \hC1CB>>
    /\ sent = <<\b0010000111, 512 + \hCE, 512 + \hAA,
                \b0010010000, 512 + \hC1, 512 + \hCB>>

\* C9: for every character code c in 0..255 given to printHalfCharacters, the
\* instruction sent for it is 0b1000000000 | c: bit 9 set, bit 8 clear, the low
\* 8 bits c, also for 128..255 where char is signed.
C9_HalfWriteData ==
    call.op = "printHalfCharacters" =>
        \A p \in HalfStart..(HalfStart + call.length - 1) :
            sent[HalfIndex(p)] = 512 + call.chars[p - HalfStart + 1]

====
